---- MODULE Spec2Model ----
(***************************************************************************)
(* Sudoku as a constraint satisfaction problem: the group generator, the   *)
(* file loader, AC-3 and the backtracking search of notebook_Sudoku_CSP.   *)
(* Cells are the strings "A1".."I9", candidate values the one-character    *)
(* strings "1".."9", a board a function from cells to sets of values.      *)
(***************************************************************************)
EXTENDS Naturals, Integers, Sequences, FiniteSets, TLC

(***************************************************************************)
(* Program constants and the instance explored                             *)
(***************************************************************************)

\* rows = 'ABCDEFGHI', columns = '123456789' (also the digits of hidden_single)
RowNames == <<"A", "B", "C", "D", "E", "F", "G", "H", "I">>

ColNames == <<"1", "2", "3", "4", "5", "6", "7", "8", "9">>

\* range(0, 9, 3), rows[i:i+3]: the side of a box
BoxSize == 3

\* len(lines) != 81
LineCount == 81

\* The search and the propagation are explored on the instance one box size
\* below the program's: a 4x4 grid, 12 groups, values "1".."4".
ModelBox == BoxSize - 1

\* Largest candidate set written into the one cell of an initial board that is
\* varied freely (the other cells are given or fully open).
MaxWildSize == 3

\* Longest text of the one line of an input file that is varied freely.
MaxLineLen == 2

\* Passes of the local rules made in a row on one board.
MaxPasses == 2

\* How far from the left end of the worklist an arc may be taken out of turn.
MaxLookahead == 2

(***************************************************************************)
(* Sequence helpers                                                        *)
(***************************************************************************)

\* The concatenation of a sequence of sequences.
Flatten(ss) ==
    LET upTo[i \in 0..Len(ss)] == IF i = 0 THEN <<>> ELSE upTo[i - 1] \o ss[i]
    IN  upTo[Len(ss)]

Range(s) == {s[i] : i \in 1..Len(s)}

Side(b) == b * b

(***************************************************************************)
(* generate_constraints                                                    *)
(***************************************************************************)

Rows(b) == SubSeq(RowNames, 1, Side(b))

Columns(b) == SubSeq(ColNames, 1, Side(b))

\* [[row + column for column in columns] for row in rows]
RowGroups(b) ==
    [r \in 1..Side(b) |-> [c \in 1..Side(b) |-> Rows(b)[r] \o Columns(b)[c]]]

\* [[row + column for row in rows] for column in columns]
ColumnGroups(b) ==
    [c \in 1..Side(b) |-> [r \in 1..Side(b) |-> Rows(b)[r] \o Columns(b)[c]]]

\* Variant: the boxes started at every row and column offset, for i in
\* range(0, 3) for j in range(0, 3), so that neighbouring boxes overlap.
BoxGroupsUnitStep(b) ==
    [k \in 1..Side(b) |->
        LET i == (k - 1) \div b
            j == (k - 1) % b
        IN  [m \in 1..Side(b) |->
                Rows(b)[i + ((m - 1) \div b) + 1] \o Columns(b)[j + ((m - 1) % b) + 1]]]

\* [[row + column for row in rows[i:i+3] for column in columns[j:j+3]]
\*    for i in range(0, 9, 3) for j in range(0, 9, 3)]
BoxGroups(b) ==
    [k \in 1..Side(b) |->
        LET i == ((k - 1) \div b) * b
            j == ((k - 1) % b) * b
        IN  [m \in 1..Side(b) |->
                Rows(b)[i + ((m - 1) \div b) + 1] \o Columns(b)[j + ((m - 1) % b) + 1]]]

GenerateConstraints(b) == RowGroups(b) \o ColumnGroups(b) \o BoxGroups(b)

\* The keys of the board dictionary in insertion order (read_board: row-major).
Keys(b) == Flatten(RowGroups(b))

Cells(b) == Range(Keys(b))

Digits(b) == Range(Columns(b))

(***************************************************************************)
(* read_board.  A Python str read from the file is the sequence of its     *)
(* Unicode code points: a character is a str of length one, '' is <<>>.    *)
(* A file is its text, the str written in it.                              *)
(***************************************************************************)

\* i // 9, i % 9
GridSide == 9

\* The digit characters in code point order.
DigitChars == <<"0", "1", "2", "3", "4", "5", "6", "7", "8", "9">>

\* ord(ch) for the characters written in this module
Ord(ch) ==
    CASE ch = "\t" -> 9
      [] ch = "\n" -> 10
      [] ch = "\f" -> 12
      [] ch = "\r" -> 13
      [] ch = " "  -> 32
      [] ch = "x"  -> 120
      [] OTHER     -> 47 + (CHOOSE d \in 1..Len(DigitChars) : DigitChars[d] = ch)

\* The str holding the one character ch
Chr(ch) == <<Ord(ch)>>

\* The characters str.strip() removes, those for which str.isspace() holds:
\* \t \n \v \f \r, U+001C..U+001F, the space, U+0085, U+00A0, U+1680,
\* U+2000..U+200A, U+2028, U+2029, U+202F, U+205F and U+3000.
Whitespace ==
    (9..13) \cup (28..32) \cup {133, 160, 5760} \cup (8192..8202)
      \cup {8232, 8233, 8239, 8287, 12288}

\* line.strip()
RECURSIVE Strip(_)
Strip(line) ==
    IF line = <<>> THEN <<>>
    ELSE IF Head(line) \in Whitespace THEN Strip(Tail(line))
    ELSE IF line[Len(line)] \in Whitespace THEN Strip(SubSeq(line, 1, Len(line) - 1))
    ELSE line

\* set(options) if len(options) > 1 else {options}
Options(line) ==
    LET options == Strip(line)
    IN  IF Len(options) > 1
        THEN {<<options[k]>> : k \in 1..Len(options)}
        ELSE {options}

\* cell = rows[i // 9] + columns[i % 9], i counted from 0
CellAt(i) == RowNames[(i \div GridSide) + 1] \o ColNames[(i % GridSide) + 1]

\* open(file_path, 'r'): what text mode hands over for the character at
\* position i.  "\n", "\r" and "\r\n" each end a line and are handed over as
\* "\n": the "\r" of a "\r\n" gives nothing, any other character itself.
TextModeChar(text, i) ==
    IF text[i] = Ord("\r") /\ i < Len(text) /\ text[i + 1] = Ord("\n") THEN <<>>
    ELSE IF text[i] \in {Ord("\r"), Ord("\n")} THEN <<Ord("\n")>>
    ELSE <<text[i]>>

\* The lines in positions lo..hi of the text, each with its ending, followed
\* by what is left after the last ending (the two halves are read apart and
\* the line across the middle is joined; this keeps the evaluation shallow).
RECURSIVE LinesBetween(_, _, _)
LinesBetween(text, lo, hi) ==
    IF lo > hi THEN << <<>> >>
    ELSE IF lo = hi
    THEN IF TextModeChar(text, lo) = <<Ord("\n")>>
         THEN << <<Ord("\n")>>, <<>> >>
         ELSE << TextModeChar(text, lo) >>
    ELSE LET mid   == (lo + hi) \div 2
             left  == LinesBetween(text, lo, mid)
             right == LinesBetween(text, mid + 1, hi)
         IN  SubSeq(left, 1, Len(left) - 1)
               \o << left[Len(left)] \o right[1] >>
               \o Tail(right)

\* lines = file.readlines(): a last line without an ending is a line too
ReadLines(text) ==
    LET ls == LinesBetween(text, 1, Len(text))
    IN  IF ls[Len(ls)] = <<>> THEN SubSeq(ls, 1, Len(ls) - 1) ELSE ls

\* read_board(file_path) on the file holding text: the dictionary built, or
\* the ValueError raised.  (Line i writes the key CellAt(i); the keys of lines
\* 0..80 are all different.)
ReadBoard(text) ==
    LET ls == ReadLines(text)
    IN  IF Len(ls) # LineCount
        THEN [kind |-> "ValueError", board |-> <<>>]
        ELSE [kind |-> "board",
              board |-> [cell \in {CellAt(i) : i \in 0..(Len(ls) - 1)} |->
                            LET i == CHOOSE i \in 0..(Len(ls) - 1) : CellAt(i) = cell
                            IN  Options(ls[i + 1])]]

(***************************************************************************)
(* AC-3                                                                    *)
(***************************************************************************)

\* Variant: a value is dropped as soon as Xj can take it too,
\* if any(x == y for y in board[Xj]).
ReviseDroppingShared(Xi, Xj, board) ==
    {x \in board[Xi] : ~(\E y \in board[Xj] : x = y)}

\* revise_arc_consistency: the domain of Xi after the revision against Xj
ReviseArcConsistency(Xi, Xj, board) ==
    {x \in board[Xi] : \E y \in board[Xj] : x # y}

\* [(Xi, Xj) for Xi in const for Xj in const if Xi != Xj]
ArcsOf(const) ==
    LET n == Len(const)
        all == [k \in 1..(n * n) |->
                   <<const[((k - 1) \div n) + 1], const[((k - 1) % n) + 1]>>]
    IN  SelectSeq(all, LAMBDA a : a[1] # a[2])

\* Variant: the arcs of the last group of the list are left out.
InitialQueueButLastGroup(constraints) ==
    Flatten([g \in 1..(Len(constraints) - 1) |-> ArcsOf(constraints[g])])

\* Variant: only the arcs of the first group are put on the worklist.
InitialQueueFirstGroup(constraints) == ArcsOf(constraints[1])

InitialQueue(constraints) ==
    Flatten([g \in 1..Len(constraints) |-> ArcsOf(constraints[g])])

\* Variant: nothing is appended after a revision.
RequeueNothing(Xi, Xj, constraints) == <<>>

\* for const in constraints: if Xi in const: for Xk in const:
\*     if Xk != Xi and Xk != Xj: queue.append((Xk, Xi))
Requeue(Xi, Xj, constraints) ==
    Flatten([g \in 1..Len(constraints) |->
        IF Xi \in Range(constraints[g])
        THEN LET ks == SelectSeq(constraints[g], LAMBDA Xk : Xk # Xi /\ Xk # Xj)
             IN  [m \in 1..Len(ks) |-> <<ks[m], Xi>>]
        ELSE <<>>])

\* Variant: the test len(board[Xi]) == 0 is missing.
Ac3TakeNoEmptyTest(st, i, constraints) ==
    LET Xi  == st.queue[i][1]
        Xj  == st.queue[i][2]
        rest == SubSeq(st.queue, 1, i - 1) \o SubSeq(st.queue, i + 1, Len(st.queue))
        dom == ReviseArcConsistency(Xi, Xj, st.board)
    IN  IF dom # st.board[Xi]
        THEN [board |-> [st.board EXCEPT ![Xi] = dom],
              queue |-> rest \o Requeue(Xi, Xj, constraints), result |-> "running"]
        ELSE [board |-> st.board, queue |-> rest, result |-> "running"]

\* Variant: the arcs are appended whether or not the revision removed a value.
Ac3TakeAlwaysRequeue(st, i, constraints) ==
    LET Xi  == st.queue[i][1]
        Xj  == st.queue[i][2]
        rest == SubSeq(st.queue, 1, i - 1) \o SubSeq(st.queue, i + 1, Len(st.queue))
        dom == ReviseArcConsistency(Xi, Xj, st.board)
    IN  IF dom # st.board[Xi] /\ dom = {}
        THEN [board |-> [st.board EXCEPT ![Xi] = dom], queue |-> rest, result |-> "false"]
        ELSE [board |-> [st.board EXCEPT ![Xi] = dom],
              queue |-> rest \o Requeue(Xi, Xj, constraints), result |-> "running"]

\* One iteration of the while loop of ac3 with the arc at position i of the
\* worklist taken (the code takes the leftmost, i = 1).  result is "running"
\* until the function returns; the outcome is "true" or "false" once it has.
Ac3Take(st, i, constraints) ==
    LET Xi  == st.queue[i][1]
        Xj  == st.queue[i][2]
        rest == SubSeq(st.queue, 1, i - 1) \o SubSeq(st.queue, i + 1, Len(st.queue))
        dom == ReviseArcConsistency(Xi, Xj, st.board)
        nb  == [st.board EXCEPT ![Xi] = dom]
    IN  IF dom # st.board[Xi]
        THEN IF dom = {}
             THEN [board |-> nb, queue |-> rest, result |-> "false"]
             ELSE [board |-> nb, queue |-> rest \o Requeue(Xi, Xj, constraints),
                   result |-> "running"]
        ELSE [board |-> st.board, queue |-> rest, result |-> "running"]

Ac3Step(st, constraints) ==
    IF st.queue = <<>>
    THEN [st EXCEPT !.result = "true"]
    ELSE Ac3Take(st, 1, constraints)

Ac3Start(board, constraints) ==
    [board |-> board, queue |-> InitialQueue(constraints), result |-> "running"]

\* Number of candidate values on the board, all cells together.
TotalValues(board) ==
    Cardinality(UNION {{<<v, x>> : x \in board[v]} : v \in DOMAIN board})

\* Upper bound on the iterations of the while loop: the arcs enqueued at the
\* start plus, for each value a revision can remove, the arcs one removal appends.
Ac3Fuel(board, constraints) ==
    Len(InitialQueue(constraints)) + TotalValues(board) * Len(Flatten(constraints)) + 1

\* while queue: ... run for at most n iterations from the state st (halving
\* keeps the evaluation shallow; a finished run is returned as it is).
RECURSIVE Ac3Loop(_, _, _)
Ac3LoopFrom(st, n, constraints) ==
    IF st.result # "running" \/ n = 0 THEN st
    ELSE IF n = 1 THEN Ac3Step(st, constraints)
    ELSE Ac3Loop(Ac3Loop(st, n \div 2, constraints), n - (n \div 2), constraints)

\* The same with the state and the count worked out once, before the loop
\* is entered.
Ac3Loop(st, n, constraints) ==
    CHOOSE end \in {Ac3LoopFrom(s, m, constraints) : s \in {st}, m \in {n}} : TRUE

\* ac3(board, constraints): the board left behind and the boolean returned
Ac3(board, constraints) ==
    CHOOSE r \in {[board |-> end.board, ok |-> (end.result = "true"),
                   done |-> (end.result # "running")] :
                  end \in {Ac3Loop(Ac3Start(board, constraints),
                                   Ac3Fuel(board, constraints), constraints)}} : TRUE

(***************************************************************************)
(* Local deduction rules                                                   *)
(***************************************************************************)

\* Variant: the test KeyXDelete != KeyVar is missing.
NakedSingleDeleteAny(board, KeyVar, KeyXDelete) ==
    [board EXCEPT ![KeyXDelete] = @ \ board[KeyVar]]

\* naked_single, the body of "for KeyXDelete in const": the singleton's value
\* is discarded from the cell unless it is the singleton itself.
NakedSingleDelete(board, KeyVar, KeyXDelete) ==
    IF KeyXDelete # KeyVar
    THEN [board EXCEPT ![KeyXDelete] = @ \ board[KeyVar]]
    ELSE board

\* for KeyXDelete in const, from position i of the group on (here and below
\* the board is the one value b at every turn of a loop, and end the board
\* the rest of the loop leaves)
RECURSIVE NakedSingleDeletes(_, _, _, _)
NakedSingleDeletes(board, const, KeyVar, i) ==
    IF i > Len(const) THEN board
    ELSE CHOOSE end \in {NakedSingleDeletes(NakedSingleDelete(b, KeyVar, const[i]),
                                            const, KeyVar, i + 1) : b \in {board}} : TRUE

\* naked_single, the body of "for KeyVar in const": a singleton's value is
\* discarded from every other cell of the group.
NakedSingleKey(board, const, KeyVar) ==
    IF Cardinality(board[KeyVar]) = 1
    THEN NakedSingleDeletes(board, const, KeyVar, 1)
    ELSE board

\* for KeyVar in const, from position i of the group on
RECURSIVE NakedSingleKeys(_, _, _)
NakedSingleKeys(board, const, i) ==
    IF i > Len(const) THEN board
    ELSE CHOOSE end \in {NakedSingleKeys(NakedSingleKey(b, const, const[i]), const, i + 1) :
                         b \in {board}} : TRUE

\* for const in constraints, from group g on
RECURSIVE NakedSingleGroups(_, _, _)
NakedSingleGroups(board, constraints, g) ==
    IF g > Len(constraints) THEN board
    ELSE CHOOSE end \in {NakedSingleGroups(NakedSingleKeys(b, constraints[g], 1),
                                           constraints, g + 1) : b \in {board}} : TRUE

\* naked_single(board, constraints): the board the pass leaves
NakedSingle(board, constraints) == NakedSingleGroups(board, constraints, 1)

\* for digit in '123456789'
RuleDigits == ColNames

\* hidden_single, the body of "for digit in '123456789'": the digit is counted
\* over the group; found once, it becomes the domain of the cell holding it.
HiddenSingleDigit(board, const, digit) ==
    LET holders == {i \in 1..Len(const) : digit \in board[const[i]]}
    IN  IF Cardinality(holders) = 1
        THEN [board EXCEPT ![const[CHOOSE i \in holders : TRUE]] = {digit}]
        ELSE board

\* for digit in '123456789', from position d of the digits on
RECURSIVE HiddenSingleDigits(_, _, _)
HiddenSingleDigits(board, const, d) ==
    IF d > Len(RuleDigits) THEN board
    ELSE CHOOSE end \in {HiddenSingleDigits(HiddenSingleDigit(b, const, RuleDigits[d]),
                                            const, d + 1) : b \in {board}} : TRUE

\* for const in constraints, from group g on
RECURSIVE HiddenSingleGroups(_, _, _)
HiddenSingleGroups(board, constraints, g) ==
    IF g > Len(constraints) THEN board
    ELSE CHOOSE end \in {HiddenSingleGroups(HiddenSingleDigits(b, constraints[g], 1),
                                            constraints, g + 1) : b \in {board}} : TRUE

\* hidden_single(board, constraints): the board the pass leaves
HiddenSingle(board, constraints) == HiddenSingleGroups(board, constraints, 1)

(***************************************************************************)
(* Heuristics and the completeness test                                    *)
(***************************************************************************)

\* The value None
NoneVal == "None"

\* min(iterable, key=..., default=None) and max(...): the first element of
\* the sequence whose key is least (greatest); None for an empty sequence.
FirstBest(seq, Key(_), Better(_, _)) ==
    IF seq = <<>> THEN NoneVal
    ELSE LET i == CHOOSE i \in 1..Len(seq) :
                      /\ \A j \in 1..Len(seq) : ~Better(Key(seq[j]), Key(seq[i]))
                      /\ \A j \in 1..(i - 1) : Key(seq[j]) # Key(seq[i])
         IN  seq[i]

\* (v for v in board if len(board[v]) > 1)
Unassigned(board, keys) == SelectSeq(keys, LAMBDA v : Cardinality(board[v]) > 1)

\* mrv(board)
Mrv(board, keys) ==
    FirstBest(Unassigned(board, keys),
              LAMBDA x : Cardinality(board[x]),
              LAMBDA a, b : a < b)

\* degree_heuristic(board, constraints)
DegreeHeuristic(board, keys, constraints) ==
    FirstBest(Unassigned(board, keys),
              LAMBDA x : Cardinality({g \in 1..Len(constraints) : x \in Range(constraints[g])}),
              LAMBDA a, b : a > b)

\* Variant: var = degree_heuristic(board, constraints) or mrv(board)
SelectVarDegreeFirst(board, keys, constraints) ==
    IF DegreeHeuristic(board, keys, constraints) # NoneVal
    THEN DegreeHeuristic(board, keys, constraints)
    ELSE Mrv(board, keys)

\* var = mrv(board) or degree_heuristic(board, constraints)
SelectVar(board, keys, constraints) ==
    IF Mrv(board, keys) # NoneVal THEN Mrv(board, keys)
    ELSE DegreeHeuristic(board, keys, constraints)

\* is_board_complete(board)
IsBoardComplete(board) == \A var \in DOMAIN board : Cardinality(board[var]) = 1

(***************************************************************************)
(* Boards as objects: solve and ac3 share dictionaries by reference.  The  *)
(* heap is the sequence of live board objects, a reference an index in it. *)
(***************************************************************************)

\* Variant: board_copy = board, the same object under a second name.
CopyBoardAlias(h, ref) == [heap |-> h, ref |-> ref]

\* board_copy = {v: board[v].copy() for v in board}: a new object
CopyBoard(h, ref) == [heap |-> Append(h, h[ref]), ref |-> Len(h) + 1]

\* Variant: the chosen variable keeps its domain.
AssignNothing(board, var, value) == board

\* board_copy[var] = {value}
Assign(board, var, value) == [board EXCEPT ![var] = {value}]

(***************************************************************************)
(* Satisfying assignments and the boards explored                          *)
(***************************************************************************)

ModelConstraints == GenerateConstraints(ModelBox)

ModelKeys == Keys(ModelBox)

ModelCells == Cells(ModelBox)

ModelDigits == Digits(ModelBox)

\* All groups pairwise distinct under the assignment s (one value per cell).
Satisfies(s, constraints) ==
    \A g \in 1..Len(constraints) :
        \A i, j \in 1..Len(constraints[g]) :
            i < j => s[constraints[g][i]] # s[constraints[g][j]]

RowPerms(S) ==
    {p \in [1..Cardinality(S) -> S] : \A i, j \in 1..Cardinality(S) : i # j => p[i] # p[j]}

\* Grids of k rows, each row a permutation, no value repeated in a column.
RowStacks(n) ==
    LET stacks[k \in 0..n] ==
            IF k = 0 THEN {<<>>}
            ELSE {Append(x[1], x[2]) : x \in
                     {y \in stacks[k - 1] \X RowPerms(ModelDigits) :
                         \A i \in 1..(k - 1) : \A c \in 1..n : y[1][i][c] # y[2][c]}}
    IN  stacks[n]

\* Every satisfying assignment of the explored instance, as cell -> value.
AllSolutions ==
    LET n == Side(ModelBox)
        asBoard(g) == [cell \in ModelCells |->
                          LET k == CHOOSE k \in 1..(n * n) : ModelKeys[k] = cell
                          IN  g[((k - 1) \div n) + 1][((k - 1) % n) + 1]]
    IN  {asBoard(g) : g \in {h \in RowStacks(n) : Satisfies(asBoard(h), ModelConstraints)}}

\* The satisfying assignments that take every value from the board's domains.
CompatibleSolutions(board) == {s \in AllSolutions : \A v \in ModelCells : s[v] \in board[v]}

\* One fixed satisfying assignment, used to fill in given cells.
Template ==
    LET b == ModelBox
        n == Side(b)
    IN  [cell \in ModelCells |->
            LET k == CHOOSE k \in 1..(n * n) : ModelKeys[k] = cell
                r == (k - 1) \div n
                c == (k - 1) % n
            IN  Columns(b)[((b * (r % b) + (r \div b) + c) % n) + 1]]

\* The puzzle with its first k cells (row-major) given and the others open.
Given(k) ==
    [cell \in ModelCells |->
        IF \E i \in 1..k : ModelKeys[i] = cell THEN {Template[cell]} ELSE ModelDigits]

NumCells == Side(ModelBox) * Side(ModelBox)

\* The puzzle with its first rows given.
GivenRows(rows) == Given(rows * Side(ModelBox))

\* Every cell holding the same candidate set.
UniformBoards == {[cell \in ModelCells |-> D] : D \in SUBSET ModelDigits}

\* The boards with one cell replaced by a set of at most MaxWildSize values.
PerturbOne(boards) ==
    {[bd EXCEPT ![cell] = D] :
        bd \in boards, cell \in ModelCells,
        D \in {E \in SUBSET ModelDigits : Cardinality(E) <= MaxWildSize}}

\* Boards given to ac3.
Ac3Boards ==
    UniformBoards
      \cup {Given(k) : k \in 0..NumCells}
      \cup PerturbOne({Given(k) : k \in 0..NumCells})

\* Boards given to ac3 when its loop is followed iteration by iteration.
Ac3StepBoards ==
    UniformBoards
      \cup {Given(k) : k \in 0..NumCells}
      \cup PerturbOne({GivenRows(ModelBox)})

\* Boards given to ac3 when its arcs are taken in other orders: uniform
\* boards, puzzles with the first rows given, and puzzles with the first rows
\* given and the last cell set to one value, fitting or not (the puzzle with
\* one band of boxes given is taken in that form only).
AnyOrderBoards ==
    UniformBoards
      \cup {GivenRows(r) : r \in (0..Side(ModelBox)) \ {ModelBox}}
      \cup {[GivenRows(r) EXCEPT ![ModelKeys[NumCells]] = {d}] :
                r \in ModelBox..(Side(ModelBox) - 1), d \in ModelDigits}

\* The constraints list s with its groups in reverse order.
Reversed(s) == [i \in 1..Len(s) |-> s[Len(s) + 1 - i]]

\* The constraints list s starting k groups later, the first k moved to the end.
Rotated(s, k) == [i \in 1..Len(s) |-> s[((i - 1 + k) % Len(s)) + 1]]

\* Orderings of the groups in the constraints list: rows, columns, boxes as
\* generated; columns first; boxes first; everything reversed.
GroupOrders ==
    {Rotated(ModelConstraints, k * Side(ModelBox)) : k \in 0..ModelBox}
      \cup {Reversed(ModelConstraints)}

\* Boards given to the local rules: uniform boards, puzzles with the first
\* cells given, and those with whole rows given perturbed.
RuleBoards ==
    UniformBoards
      \cup {Given(k) : k \in 0..NumCells}
      \cup PerturbOne({GivenRows(r) : r \in 0..Side(ModelBox)})

\* Boards given to solve: whole rows given, perturbing only puzzles with at
\* least one band of boxes given.
SolveBoards ==
    UniformBoards
      \cup {GivenRows(r) : r \in 0..Side(ModelBox)}
      \cup PerturbOne({GivenRows(r) : r \in ModelBox..Side(ModelBox)})

(***************************************************************************)
(* State                                                                   *)
(***************************************************************************)

VARIABLES
    input,     \* solve: the board main passes, as it was at the call
    heap,      \* solve: the live board objects
    stack,     \* solve: the activations of solve, outermost first
    ret,       \* solve: the value being returned to the caller on top
    handed,    \* solve: the latest board handed to ac3 and the call that did it
    acInput,   \* ac3: the board before the first call
    acSt,      \* ac3: board, worklist and outcome of the current call
    acCall,    \* ac3: number of calls started on the board
    acFirst,   \* ac3: board and boolean the first call left
    acRequeues,\* ac3: revisions of the current call that appended arcs
    acIters,   \* ac3: loop iterations of the current call
    file,      \* main: the text of the input file
    loaded,    \* main: what read_board gave, a board or the error raised
    mainConstraints, \* main: the groups generate_constraints returned
    mainPc,    \* main: "start", "read", "generated" or "failed"
    ruleInput, \* rules: the board before any pass
    ruleBoard, \* rules: the board the passes work on
    rulePrev,  \* rules: the board as it was before the latest pass
    rulePasses,\* rules: the passes made so far, in order
    ruleAc3,   \* rules: what ac3 returned and left when run after the passes
    anyInput,  \* ac3 in any order: the board before the call
    anyGroups, \* ac3 in any order: the constraints list passed
    anySt,     \* ac3 in any order: board, worklist and outcome
    anyPick    \* ac3 in any order: how arcs are taken from the worklist

solveVars == <<input, heap, stack, ret, handed>>

ac3Vars == <<acInput, acSt, acCall, acFirst, acRequeues, acIters>>

loadVars == <<file, loaded, mainConstraints, mainPc>>

ruleVars == <<ruleInput, ruleBoard, rulePrev, rulePasses, ruleAc3>>

anyVars == <<anyInput, anyGroups, anySt, anyPick>>

vars == <<solveVars, ac3Vars, loadVars, ruleVars, anyVars>>

Idle == [kind |-> "idle", ref |-> 0]

ReturnedNone == [kind |-> "none", ref |-> 0]

ReturnedBoard(ref) == [kind |-> "board", ref |-> ref]

NoHanded == [entry |-> <<>>, var |-> NoneVal, value |-> NoneVal, board |-> <<>>]

NoFirst == [board |-> <<>>, ok |-> FALSE]

NoAc3 == [board |-> <<>>, queue |-> <<>>, result |-> "idle"]

\* How arcs are taken from the worklist: mode is "front" or "back", owed the
\* number of leftmost arcs to take before another is taken out of turn.
Pick(mode) == [mode |-> mode, owed |-> 0]

NoPick == Pick("none")

NotLoaded == [kind |-> "none", board |-> <<>>]

NoAc3Result == [board |-> <<>>, ok |-> FALSE, done |-> FALSE]

(***************************************************************************)
(* solve                                                                   *)
(***************************************************************************)

\* An activation of solve: its board (a reference), the branching variable, the
\* values the for loop has not reached yet and the place it is at.  entry keeps
\* the board as it was at the call, failed counts the recursive calls that
\* came back with None.
Frame(ref, board) ==
    [ref |-> ref, entry |-> board, var |-> NoneVal, todo |-> {}, pc |-> "enter",
     failed |-> 0]

\* Variant: the loop goes through every digit, in the domain or not.
CandidatesAllDigits(board, var) == ModelDigits

\* Variant: the loop is left after its first value.
CandidatesFirstOnly(board, var) == {CHOOSE x \in board[var] : TRUE}

\* Variant: the loop stops one value short.
CandidatesButOne(board, var) ==
    board[var] \ {CHOOSE x \in board[var] : TRUE}

\* for value in board[var].copy(): the values the loop goes through
Candidates(board, var) == board[var]

\* main: solution = solve(board, constraints, verbose=True)
SolveInit ==
    /\ input \in SolveBoards
    /\ heap = <<input>>
    /\ stack = <<Frame(1, input)>>
    /\ ret = Idle
    /\ handed = NoHanded
    /\ acInput = <<>> /\ acSt = NoAc3 /\ acCall = 0
    /\ acFirst = NoFirst /\ acRequeues = 0 /\ acIters = 0
    /\ file = <<>> /\ loaded = NotLoaded /\ mainConstraints = <<>> /\ mainPc = "idle"
    /\ ruleInput = <<>> /\ ruleBoard = <<>> /\ rulePrev = <<>>
    /\ rulePasses = <<>> /\ ruleAc3 = NoAc3Result
    /\ anyInput = <<>> /\ anyGroups = <<>> /\ anySt = NoAc3 /\ anyPick = NoPick

Top == stack[Len(stack)]

Pop == SubSeq(stack, 1, Len(stack) - 1)

\* return value
Return(value) ==
    /\ stack' = Pop
    /\ ret' = value
    /\ UNCHANGED <<input, heap, handed>>

\* The body of solve up to the for loop: the completeness test and the choice
\* of the branching variable; the loop iterates over board[var].copy().
SolveEnter ==
    /\ stack # <<>> /\ Top.pc = "enter"
    /\ LET board == heap[Top.ref]
           var   == SelectVar(board, ModelKeys, ModelConstraints)
       IN  IF IsBoardComplete(board) THEN Return(ReturnedBoard(Top.ref))
           ELSE IF var = NoneVal THEN Return(ReturnedNone)
           ELSE /\ stack' = [stack EXCEPT ![Len(stack)] =
                                [@ EXCEPT !.var = var, !.todo = Candidates(board, var),
                                           !.pc = "loop"]]
                /\ UNCHANGED <<input, heap, ret, handed>>
    /\ UNCHANGED <<ac3Vars, loadVars, ruleVars, anyVars>>

\* One iteration of the for loop up to the recursive call: copy, assign, ac3.
\* A set is iterated in an order the program does not fix.
SolveTry ==
    /\ stack # <<>> /\ Top.pc = "loop"
    /\ \E value \in Top.todo :
        LET d  == Len(stack)
            cp == CopyBoard(heap, Top.ref)
            h1 == [cp.heap EXCEPT ![cp.ref] = Assign(@, Top.var, value)]
        IN  \E r \in {Ac3(h1[cp.ref], ModelConstraints)} :
            LET h2 == [h1 EXCEPT ![cp.ref] = r.board]
            IN
            /\ handed' = [entry |-> Top.entry, var |-> Top.var, value |-> value,
                          board |-> h1[cp.ref]]
            /\ IF r.ok
               THEN /\ heap' = h2
                    /\ stack' = Append([stack EXCEPT ![d] = [@ EXCEPT !.todo = @ \ {value},
                                                                      !.pc = "call"]],
                                       Frame(cp.ref, h2[cp.ref]))
               ELSE /\ heap' = SubSeq(h2, 1, Top.ref)
                    /\ stack' = [stack EXCEPT ![d] = [@ EXCEPT !.todo = @ \ {value}]]
            /\ UNCHANGED <<input, ret>>
    /\ UNCHANGED <<ac3Vars, loadVars, ruleVars, anyVars>>

\* The loop ran out of values: return None.
SolveExhausted ==
    /\ stack # <<>> /\ Top.pc = "loop" /\ Top.todo = {}
    /\ Return(ReturnedNone)
    /\ UNCHANGED <<ac3Vars, loadVars, ruleVars, anyVars>>

\* Variant: the result of the recursive call is never taken for a solution.
IsSolutionNever(value) == FALSE

\* if solution: a board (a non-empty dict) is true, None is false
IsSolution(value) == value.kind = "board"

\* solution = solve(board_copy, ...); if solution: return solution
SolveResume ==
    /\ stack # <<>> /\ Top.pc = "call" /\ ret # Idle
    /\ IF IsSolution(ret) THEN Return(ret)
       ELSE /\ stack' = [stack EXCEPT ![Len(stack)] =
                            [@ EXCEPT !.pc = "loop", !.failed = @ + 1]]
            /\ ret' = Idle
            /\ heap' = SubSeq(heap, 1, Top.ref)
            /\ UNCHANGED <<input, handed>>
    /\ UNCHANGED <<ac3Vars, loadVars, ruleVars, anyVars>>

SolveNext == SolveEnter \/ SolveTry \/ SolveExhausted \/ SolveResume

SpecSolve == SolveInit /\ [][SolveNext]_vars

\* solve runs until it returns: nothing else is scheduled.
SpecSolveFair == SpecSolve /\ WF_vars(SolveNext)

\* solve has returned to main
SolveDone == stack = <<>> /\ ret # Idle

\* the board solve returned (defined when ret.kind = "board")
Solution == heap[ret.ref]

(***************************************************************************)
(* ac3 called on a board, as a whole and iteration by iteration            *)
(***************************************************************************)

Ac3Init ==
    /\ acInput \in Ac3Boards
    /\ acSt = [board |-> acInput, queue |-> <<>>, result |-> "idle"]
    /\ acCall = 0
    /\ acFirst = NoFirst
    /\ acRequeues = 0
    /\ acIters = 0
    /\ input = <<>> /\ heap = <<>> /\ stack = <<>> /\ ret = Idle /\ handed = NoHanded
    /\ file = <<>> /\ loaded = NotLoaded /\ mainConstraints = <<>> /\ mainPc = "idle"
    /\ ruleInput = <<>> /\ ruleBoard = <<>> /\ rulePrev = <<>>
    /\ rulePasses = <<>> /\ ruleAc3 = NoAc3Result
    /\ anyInput = <<>> /\ anyGroups = <<>> /\ anySt = NoAc3 /\ anyPick = NoPick

\* ac3(board, constraints), and once more on the board it left
Ac3Call ==
    /\ acCall < 2 /\ acSt.result # "running"
    /\ acCall' = acCall + 1
    /\ acSt' = Ac3Loop(Ac3Start(acSt.board, ModelConstraints),
                       Ac3Fuel(acSt.board, ModelConstraints), ModelConstraints)
    /\ acFirst' = IF acCall = 0
                  THEN [board |-> acSt'.board, ok |-> (acSt'.result = "true")]
                  ELSE acFirst
    /\ UNCHANGED <<acInput, acRequeues, acIters>>
    /\ UNCHANGED <<solveVars, loadVars, ruleVars, anyVars>>

Ac3Next == Ac3Call

SpecAc3 == Ac3Init /\ [][Ac3Next]_vars

\* The call has returned.
Ac3Returned == acCall > 0 /\ acSt.result \in {"true", "false"}

\* The same call followed one iteration of the while loop at a time.
Ac3StepInit ==
    /\ acInput \in Ac3StepBoards
    /\ acSt = [board |-> acInput, queue |-> <<>>, result |-> "idle"]
    /\ acCall = 0
    /\ acFirst = NoFirst
    /\ acRequeues = 0
    /\ acIters = 0
    /\ input = <<>> /\ heap = <<>> /\ stack = <<>> /\ ret = Idle /\ handed = NoHanded
    /\ file = <<>> /\ loaded = NotLoaded /\ mainConstraints = <<>> /\ mainPc = "idle"
    /\ ruleInput = <<>> /\ ruleBoard = <<>> /\ rulePrev = <<>>
    /\ rulePasses = <<>> /\ ruleAc3 = NoAc3Result
    /\ anyInput = <<>> /\ anyGroups = <<>> /\ anySt = NoAc3 /\ anyPick = NoPick

\* queue = deque([...])
Ac3Begin ==
    /\ acCall = 0
    /\ acCall' = 1
    /\ acSt' = Ac3Start(acSt.board, ModelConstraints)
    /\ UNCHANGED <<acInput, acFirst, acRequeues, acIters>>
    /\ UNCHANGED <<solveVars, loadVars, ruleVars, anyVars>>

\* Number of arcs the iteration from st to nx appended to the worklist.
Appended(st, nx) == IF st.queue = <<>> THEN 0 ELSE Len(nx.queue) - (Len(st.queue) - 1)

\* while queue: one iteration, or the return True once the worklist is empty
Ac3Iterate ==
    /\ acCall = 1 /\ acSt.result = "running"
    /\ acSt' = Ac3Step(acSt, ModelConstraints)
    /\ acIters' = acIters + 1
    /\ acRequeues' = IF Appended(acSt, acSt') > 0 THEN acRequeues + 1 ELSE acRequeues
    /\ acFirst' = IF acSt'.result # "running"
                  THEN [board |-> acSt'.board, ok |-> (acSt'.result = "true")]
                  ELSE acFirst
    /\ UNCHANGED <<acInput, acCall>>
    /\ UNCHANGED <<solveVars, loadVars, ruleVars, anyVars>>

Ac3StepNext == Ac3Begin \/ Ac3Iterate

SpecAc3Steps == Ac3StepInit /\ [][Ac3StepNext]_vars

\* The loop is scheduled until it returns: nothing else runs.
SpecAc3StepsFair == SpecAc3Steps /\ WF_vars(Ac3StepNext)

(***************************************************************************)
(* main up to the call of solve: read_board, then generate_constraints     *)
(***************************************************************************)

\* Characters a varied line is written with.
LineAlphabet == {Ord(ch) : ch \in {"1", "2", "9", "0", "x", " ", "\r", "\f"}}

\* Texts of at most n characters.
RECURSIVE Texts(_)
Texts(n) ==
    IF n = 0 THEN {<<>>}
    ELSE Texts(n - 1) \cup {Append(t, ch) : t \in Texts(n - 1), ch \in LineAlphabet}

\* A well-formed line: one digit and the newline.
PlainLine(i) == <<Ord(ColNames[(i % GridSide) + 1]), Ord("\n")>>

\* The file of n well-formed lines, line p (if any) replaced by the text t.
InputFile(n, p, t) ==
    Flatten([i \in 1..n |-> IF i = p THEN Append(t, Ord("\n")) ELSE PlainLine(i)])

\* Which line of a file is varied: none (0), the first, the last of the first
\* row, the first of the second row, the 81st, or the one past it.
VariedLines == {0, 1, GridSide, GridSide + 1, LineCount, LineCount + 1}

\* Files of LineCount - 1 .. LineCount + 1 lines, at most one of them varied.
LoadInit ==
    /\ \E n \in (LineCount - 1)..(LineCount + 1), p \in VariedLines :
         \E t \in Texts(MaxLineLen) : file = InputFile(n, p, t)
    /\ loaded = NotLoaded
    /\ mainConstraints = <<>>
    /\ mainPc = "start"
    /\ input = <<>> /\ heap = <<>> /\ stack = <<>> /\ ret = Idle /\ handed = NoHanded
    /\ acInput = <<>> /\ acSt = NoAc3 /\ acCall = 0
    /\ acFirst = NoFirst /\ acRequeues = 0 /\ acIters = 0
    /\ ruleInput = <<>> /\ ruleBoard = <<>> /\ rulePrev = <<>>
    /\ rulePasses = <<>> /\ ruleAc3 = NoAc3Result
    /\ anyInput = <<>> /\ anyGroups = <<>> /\ anySt = NoAc3 /\ anyPick = NoPick

\* board = read_board(file_path); the ValueError is not caught and ends main
MainReadBoard ==
    /\ mainPc = "start"
    /\ loaded' = ReadBoard(file)
    /\ mainPc' = IF loaded'.kind = "board" THEN "read" ELSE "failed"
    /\ UNCHANGED <<file, mainConstraints>>
    /\ UNCHANGED <<solveVars, ac3Vars, ruleVars, anyVars>>

\* constraints = generate_constraints()
MainGenerateConstraints ==
    /\ mainPc = "read"
    /\ mainConstraints' = GenerateConstraints(BoxSize)
    /\ mainPc' = "generated"
    /\ UNCHANGED <<file, loaded>>
    /\ UNCHANGED <<solveVars, ac3Vars, ruleVars, anyVars>>

LoadNext == MainReadBoard \/ MainGenerateConstraints

SpecLoad == LoadInit /\ [][LoadNext]_vars

(***************************************************************************)
(* The local rules run on a board, and ac3 after them                      *)
(***************************************************************************)

RulesInit ==
    /\ ruleInput \in RuleBoards
    /\ ruleBoard = ruleInput
    /\ rulePrev = ruleInput
    /\ rulePasses = <<>>
    /\ ruleAc3 = NoAc3Result
    /\ input = <<>> /\ heap = <<>> /\ stack = <<>> /\ ret = Idle /\ handed = NoHanded
    /\ acInput = <<>> /\ acSt = NoAc3 /\ acCall = 0
    /\ acFirst = NoFirst /\ acRequeues = 0 /\ acIters = 0
    /\ file = <<>> /\ loaded = NotLoaded /\ mainConstraints = <<>> /\ mainPc = "idle"
    /\ anyInput = <<>> /\ anyGroups = <<>> /\ anySt = NoAc3 /\ anyPick = NoPick

\* naked_single(board, constraints)
RunNakedSingle ==
    /\ Len(rulePasses) < MaxPasses /\ ruleAc3 = NoAc3Result
    /\ rulePrev' = ruleBoard
    /\ ruleBoard' = NakedSingle(ruleBoard, ModelConstraints)
    /\ rulePasses' = Append(rulePasses, "naked_single")
    /\ UNCHANGED <<ruleInput, ruleAc3>>
    /\ UNCHANGED <<solveVars, ac3Vars, loadVars, anyVars>>

\* hidden_single(board, constraints)
RunHiddenSingle ==
    /\ Len(rulePasses) < MaxPasses /\ ruleAc3 = NoAc3Result
    /\ rulePrev' = ruleBoard
    /\ ruleBoard' = HiddenSingle(ruleBoard, ModelConstraints)
    /\ rulePasses' = Append(rulePasses, "hidden_single")
    /\ UNCHANGED <<ruleInput, ruleAc3>>
    /\ UNCHANGED <<solveVars, ac3Vars, loadVars, anyVars>>

\* ac3(board, constraints) on the board the passes left
RunAc3 ==
    /\ ruleAc3 = NoAc3Result
    /\ ruleAc3' = Ac3(ruleBoard, ModelConstraints)
    /\ ruleBoard' = ruleAc3'.board
    /\ rulePrev' = ruleBoard
    /\ UNCHANGED <<ruleInput, rulePasses>>
    /\ UNCHANGED <<solveVars, ac3Vars, loadVars, anyVars>>

RulesNext == RunNakedSingle \/ RunHiddenSingle \/ RunAc3

SpecRules == RulesInit /\ [][RulesNext]_vars

(***************************************************************************)
(* ac3 with the arcs taken from the worklist in other orders and the       *)
(* groups of the constraints list in other orders                          *)
(***************************************************************************)

Ac3AnyInit ==
    /\ anyInput \in AnyOrderBoards
    /\ anyGroups \in GroupOrders
    /\ anyPick \in {Pick("front"), Pick("back")}
    /\ anySt = [board |-> anyInput, queue |-> <<>>, result |-> "idle"]
    /\ input = <<>> /\ heap = <<>> /\ stack = <<>> /\ ret = Idle /\ handed = NoHanded
    /\ acInput = <<>> /\ acSt = NoAc3 /\ acCall = 0 /\ acFirst = NoFirst
    /\ acRequeues = 0 /\ acIters = 0
    /\ file = <<>> /\ loaded = NotLoaded /\ mainConstraints = <<>> /\ mainPc = "idle"
    /\ ruleInput = <<>> /\ ruleBoard = <<>> /\ rulePrev = <<>>
    /\ rulePasses = <<>> /\ ruleAc3 = NoAc3Result

\* queue = deque([...]) over the constraints list as it was passed
Ac3AnyBegin ==
    /\ anySt.result = "idle"
    /\ anySt' = Ac3Start(anySt.board, anyGroups)
    /\ UNCHANGED <<anyInput, anyGroups, anyPick>>
    /\ UNCHANGED <<solveVars, ac3Vars, loadVars, ruleVars>>

\* One iteration with the leftmost arc or an arc near the left end taken; an
\* arc taken from further in is followed by the arcs it was taken ahead of,
\* so arcs change places with their neighbours anywhere along the worklist.
Ac3AnyTakeAhead ==
    /\ anySt.result = "running" /\ anyPick.mode = "front" /\ anySt.queue # <<>>
    /\ \E i \in 1..MaxLookahead :
          /\ i <= Len(anySt.queue)
          /\ anyPick.owed > 0 => i = 1
          /\ anySt' = Ac3Take(anySt, i, anyGroups)
          /\ anyPick' = [anyPick EXCEPT !.owed = IF i = 1 THEN IF @ > 0 THEN @ - 1 ELSE @
                                                  ELSE i - 1]
    /\ UNCHANGED <<anyInput, anyGroups>>
    /\ UNCHANGED <<solveVars, ac3Vars, loadVars, ruleVars>>

\* One iteration with the rightmost arc taken (the worklist used as a stack).
Ac3AnyTakeLast ==
    /\ anySt.result = "running" /\ anyPick.mode = "back" /\ anySt.queue # <<>>
    /\ anySt' = Ac3Take(anySt, Len(anySt.queue), anyGroups)
    /\ UNCHANGED <<anyInput, anyGroups, anyPick>>
    /\ UNCHANGED <<solveVars, ac3Vars, loadVars, ruleVars>>

\* while queue: the worklist is empty, return True
Ac3AnyReturnTrue ==
    /\ anySt.result = "running" /\ anySt.queue = <<>>
    /\ anySt' = [anySt EXCEPT !.result = "true"]
    /\ UNCHANGED <<anyInput, anyGroups, anyPick>>
    /\ UNCHANGED <<solveVars, ac3Vars, loadVars, ruleVars>>

Ac3AnyNext == Ac3AnyBegin \/ Ac3AnyTakeAhead \/ Ac3AnyTakeLast \/ Ac3AnyReturnTrue

SpecAc3AnyOrder == Ac3AnyInit /\ [][Ac3AnyNext]_vars

(***************************************************************************)
(* Properties of the loader and the group generator                        *)
(***************************************************************************)

\* The 81 variables A1..I9.
AllVariables == {RowNames[r] \o ColNames[c] : r \in 1..9, c \in 1..9}

GroupsWith(cs, cell, from, to) == {g \in from..to : cell \in Range(cs[g])}

\* C9: generate_constraints returns exactly 27 groups (9 rows, 9 columns,
\* 9 boxes) of 9 distinct variables each; every one of the 81 variables is in
\* exactly 3 groups, one row, one column and one box; the 9 boxes are
\* pairwise disjoint and together cover the 81 variables.
C9_GroupsCoverGrid ==
    mainPc = "generated" =>
        /\ Len(mainConstraints) = 27
        /\ \A g \in 1..27 :
              /\ Len(mainConstraints[g]) = 9
              /\ Cardinality(Range(mainConstraints[g])) = 9
              /\ Range(mainConstraints[g]) \subseteq AllVariables
        /\ Cardinality(AllVariables) = 81
        /\ \A k \in 1..9 :
              /\ Range(mainConstraints[k]) = {RowNames[k] \o ColNames[c] : c \in 1..9}
              /\ Range(mainConstraints[9 + k]) = {RowNames[r] \o ColNames[k] : r \in 1..9}
        /\ \A cell \in AllVariables :
              /\ Cardinality(GroupsWith(mainConstraints, cell, 1, 27)) = 3
              /\ Cardinality(GroupsWith(mainConstraints, cell, 1, 9)) = 1
              /\ Cardinality(GroupsWith(mainConstraints, cell, 10, 18)) = 1
              /\ Cardinality(GroupsWith(mainConstraints, cell, 19, 27)) = 1
        /\ \A g, h \in 19..27 :
              g # h => Range(mainConstraints[g]) \cap Range(mainConstraints[h]) = {}
        /\ UNION {Range(mainConstraints[g]) : g \in 19..27} = AllVariables

\* main has the groups in hand, built after a board was read.
C9_Witness ==
    /\ mainPc = "generated"
    /\ loaded.kind = "board"
    /\ Len(mainConstraints) = 27

\* The digits 1..9 as strs.
DigitStrs == {Chr(ColNames[c]) : c \in 1..Len(ColNames)}

\* The text of a line can stand for a candidate set: digits 1..9, at least one.
LineIsCandidates(line) ==
    /\ Strip(line) # <<>>
    /\ \A k \in 1..Len(Strip(line)) : <<Strip(line)[k]>> \in DigitStrs

\* A file read_board can turn into a board of 81 non-empty sets of digits.
FileIsBoard(text) ==
    /\ Len(ReadLines(text)) = 81
    /\ \A i \in 1..Len(ReadLines(text)) : LineIsCandidates(ReadLines(text)[i])

\* C10: every board read_board returns has exactly the entries A1..I9, each a
\* non-empty set of digits 1..9, and every file that cannot give such a board
\* (a line count other than 81, an empty line, a character that is no digit
\* 1..9) is rejected with the validation error.
C10_OnlyValidBoards ==
    mainPc # "start" =>
        /\ loaded.kind = "board" =>
              /\ DOMAIN loaded.board = AllVariables
              /\ \A cell \in AllVariables :
                    /\ loaded.board[cell] # {}
                    /\ loaded.board[cell] \subseteq DigitStrs
        /\ ~FileIsBoard(file) => loaded.kind = "ValueError"

(***************************************************************************)
(* Properties of ac3                                                       *)
(***************************************************************************)

\* The board the current call of ac3 was given.
Ac3Given == IF acCall = 2 THEN acFirst.board ELSE acInput

NoEmptyDomain(board) == \A v \in DOMAIN board : board[v] # {}

\* C4, as claimed: for every board, empty domains allowed, ac3 returns True
\* exactly when every domain is non-empty as it finishes, and False exactly
\* when some domain is empty.
C4_ReturnTellsNonEmpty ==
    Ac3Returned => ((acSt.result = "true") <=> NoEmptyDomain(acSt.board))

\* C4, amended: the same for every board with at least one non-empty domain;
\* on the board whose domains are all empty ac3 returns True.
C4_ReturnTellsNonEmptyUnlessAllEmpty ==
    Ac3Returned =>
        IF \E v \in ModelCells : Ac3Given[v] # {}
        THEN (acSt.result = "true") <=> NoEmptyDomain(acSt.board)
        ELSE acSt.result = "true" /\ acSt.board = Ac3Given

\* ac3 was given a board without an empty domain and returned False.
C4_Witness ==
    /\ Ac3Returned /\ acCall = 1
    /\ NoEmptyDomain(acInput)
    /\ acSt.result = "false"
    /\ ~NoEmptyDomain(acSt.board)

\* C5: for every board and every satisfying assignment s that takes each value
\* from the board's domains, after ac3 the value s(v) is still in the domain
\* of every v, and ac3 returned True.
C5_PruningIsSound ==
    (Ac3Returned /\ acCall = 1) =>
        \A s \in CompatibleSolutions(acInput) :
            /\ acSt.result = "true"
            /\ \A v \in ModelCells : s[v] \in acSt.board[v]

\* ac3 removed values from a board that has a satisfying assignment.
C5_Witness ==
    /\ Ac3Returned /\ acCall = 1
    /\ CompatibleSolutions(acInput) # {}
    /\ acSt.board # acInput

\* C6, as claimed: for every board, a second run of ac3 leaves the board
\* exactly as the first run left it.
C6_SecondRunChangesNothing ==
    (Ac3Returned /\ acCall = 2) => acSt.board = acFirst.board

\* C6, amended: for every board on which the first run returns True, a second
\* run leaves the board exactly as the first run left it (and returns True).
C6_SecondRunChangesNothingAfterTrue ==
    (Ac3Returned /\ acCall = 2 /\ acFirst.ok) =>
        /\ acSt.board = acFirst.board
        /\ acSt.result = "true"

\* The first run removed values and returned True, and the second has run.
C6_Witness ==
    /\ Ac3Returned /\ acCall = 2
    /\ acFirst.ok
    /\ acFirst.board # acInput

\* C7: the worklist loop of ac3 stops and returns a boolean; arcs are appended
\* only by an iteration that removed at least one value, so the revisions that
\* append arcs number at most the values on the board ac3 was given.
C7_LoopTerminates ==
    /\ <>(acCall = 1 /\ acSt.result \in {"true", "false"})
    /\ [](acRequeues <= TotalValues(acInput))
    /\ [][Appended(acSt, acSt') > 0 =>
            TotalValues(acSt'.board) < TotalValues(acSt.board)]_vars

\* The loop has returned after appending arcs at least twice.
C7_Witness ==
    /\ acCall = 1 /\ acSt.result \in {"true", "false"}
    /\ acIters > 0
    /\ acRequeues >= 2

(***************************************************************************)
(* Properties of solve                                                     *)
(***************************************************************************)

\* Every domain is a singleton and no group holds a value twice.
SolvedBoard(board) ==
    /\ IsBoardComplete(board)
    /\ \A g \in 1..Len(ModelConstraints) :
          \A i, j \in 1..Len(ModelConstraints[g]) :
              i < j => board[ModelConstraints[g][i]] # board[ModelConstraints[g][j]]

\* In every group the domains are singletons whose values are all the digits.
GroupsArePermutations(board) ==
    /\ IsBoardComplete(board)
    /\ \A g \in 1..Len(ModelConstraints) :
          /\ UNION {board[v] : v \in Range(ModelConstraints[g])} = ModelDigits
          /\ \A i, j \in 1..Len(ModelConstraints[g]) :
                i < j => board[ModelConstraints[g][i]] # board[ModelConstraints[g][j]]

\* C1: for every board that has a satisfying assignment (one value per
\* variable from its domain, all groups pairwise distinct) solve returns a
\* board, not None, in which every domain is a singleton and every group's
\* values are pairwise distinct.
C1_SearchIsComplete ==
    (SolveDone /\ CompatibleSolutions(input) # {}) =>
        /\ ret.kind = "board"
        /\ SolvedBoard(Solution)

\* solve returned a solved board, found by search, for an input that has
\* a satisfying assignment and leaves at least one full row's worth of
\* variables unassigned.
C1_Witness ==
    /\ SolveDone /\ ret.kind = "board"
    /\ CompatibleSolutions(input) # {}
    /\ SolvedBoard(Solution)
    /\ Solution # input
    /\ Cardinality({v \in ModelCells : Cardinality(input[v]) > 1}) >= Side(ModelBox)

\* C2: for every input board, whenever solve returns a board, in each group
\* the domains are singletons whose values form a permutation of the digits.
C2_ReturnedBoardIsSolved ==
    (SolveDone /\ ret.kind = "board") => GroupsArePermutations(Solution)

\* C3: for every input board without a satisfying assignment solve returns
\* None; it never returns a board, let alone one with an empty domain.
C3_NoSolutionGivesNone ==
    (SolveDone /\ CompatibleSolutions(input) = {}) => ret = ReturnedNone

\* C8: solve never changes the board it was given: the board of every
\* activation is as it was at the call, and the board handed to ac3 for a
\* candidate value is that entry board with only the chosen variable's domain
\* replaced by {value}.
C8_CopyBeforeBranch ==
    /\ heap[1] = input
    /\ \A i \in 1..Len(stack) : heap[stack[i].ref] = stack[i].entry
    /\ handed # NoHanded =>
          handed.board = [handed.entry EXCEPT ![handed.var] = {handed.value}]

\* An activation is trying a further value after one of its recursive calls
\* pruned its own copy and came back with None.
C8_Witness ==
    \E i \in 1..Len(stack) :
        /\ stack[i].failed > 0
        /\ stack[i].pc = "call"
        /\ Len(stack) > i
        /\ heap[stack[i + 1].ref] # Assign(stack[i].entry, stack[i].var, handed.value)

(***************************************************************************)
(* Further properties of ac3                                               *)
(***************************************************************************)

\* For every ordered pair of distinct variables sharing a group, every value
\* of the first has a different value in the second.
ArcConsistent(board, constraints) ==
    \A g \in 1..Len(constraints) :
        \A Xi, Xj \in Range(constraints[g]) :
            Xi # Xj => \A x \in board[Xi] : \E y \in board[Xj] : y # x

\* C11: whenever ac3 returns True the board is arc-consistent: for every
\* ordered pair (Xi, Xj) of distinct variables that share a group and every
\* value x of Xi, the domain of Xj holds a value different from x.
C11_TrueMeansArcConsistent ==
    (Ac3Returned /\ acSt.result = "true") => ArcConsistent(acSt.board, ModelConstraints)

\* The first call returned True after shrinking the domains of several
\* variables of a board that was not arc-consistent.
C11_Witness ==
    /\ Ac3Returned /\ acCall = 1 /\ acSt.result = "true"
    /\ ~ArcConsistent(acInput, ModelConstraints)
    /\ Cardinality({v \in ModelCells : acSt.board[v] # acInput[v]}) >= 2

(***************************************************************************)
(* Properties of the local rules                                           *)
(***************************************************************************)

\* C12: for every board, a second pass of naked_single in a row leaves the
\* board as the first pass left it, and so does a second pass of hidden_single.
C12_SecondPassChangesNothing ==
    (rulePasses = <<"naked_single", "naked_single">>
        \/ rulePasses = <<"hidden_single", "hidden_single">>) => ruleBoard = rulePrev

\* C13: for every board, naked_single followed by ac3 returns the boolean ac3
\* alone returns, and when that is True leaves the board ac3 alone leaves.
C13_Ac3SubsumesNakedSingle ==
    (rulePasses = <<"naked_single">> /\ ruleAc3.done) =>
        LET alone == Ac3(ruleInput, ModelConstraints)
        IN  /\ ruleAc3.ok = alone.ok
            /\ alone.ok => ruleAc3.board = alone.board

\* naked_single removed values, ac3 removed more after it and returned True.
C13_Witness ==
    /\ rulePasses = <<"naked_single">> /\ ruleAc3.done /\ ruleAc3.ok
    /\ NakedSingle(ruleInput, ModelConstraints) # ruleInput
    /\ ruleAc3.board # NakedSingle(ruleInput, ModelConstraints)

(***************************************************************************)
(* Further properties of solve                                             *)
(***************************************************************************)

\* The variable is unassigned on the board and no unassigned variable has a
\* smaller domain.
SmallestUnassigned(board, var) ==
    /\ var \in DOMAIN board
    /\ Cardinality(board[var]) > 1
    /\ \A u \in DOMAIN board :
          Cardinality(board[u]) > 1 => Cardinality(board[var]) <= Cardinality(board[u])

\* C14: whenever solve branches, the chosen variable is the one mrv returns,
\* an unassigned variable of minimal domain size; when mrv returns none no
\* variable has more than one value, degree_heuristic returns none too and
\* solve returns None, so degree_heuristic never changes the choice.
C14_BranchesOnMrv ==
    /\ \A i \in 1..Len(stack) :
          stack[i].pc # "enter" =>
              /\ stack[i].var = Mrv(stack[i].entry, ModelKeys)
              /\ SmallestUnassigned(stack[i].entry, stack[i].var)
    /\ \A i \in 1..Len(heap) :
          /\ SelectVar(heap[i], ModelKeys, ModelConstraints) = Mrv(heap[i], ModelKeys)
          /\ Mrv(heap[i], ModelKeys) = NoneVal =>
                /\ \A u \in ModelCells : Cardinality(heap[i][u]) <= 1
                /\ DegreeHeuristic(heap[i], ModelKeys, ModelConstraints) = NoneVal
    /\ (SolveDone /\ ~IsBoardComplete(input) /\ Mrv(input, ModelKeys) = NoneVal) =>
          ret = ReturnedNone

\* solve is branching on a variable that is not the first unassigned one: an
\* earlier unassigned variable has a larger domain.
C14_Witness ==
    \E i \in 1..Len(stack) :
        /\ stack[i].pc = "loop"
        /\ \E u \in ModelCells :
              /\ Cardinality(stack[i].entry[u]) > Cardinality(stack[i].entry[stack[i].var])
              /\ \E m, n \in 1..Len(ModelKeys) :
                    m < n /\ ModelKeys[m] = u /\ ModelKeys[n] = stack[i].var

\* C15: once a recursive call of solve has returned a board, the only thing
\* that happens is that the enclosing call returns that same board at once: no
\* further value is tried, no board is copied and ac3 is not called again.
C15_FirstSolutionIsReturned ==
    [][(ret.kind = "board" /\ stack # <<>>) =>
          /\ stack' = Pop
          /\ ret' = ret
          /\ heap' = heap
          /\ handed' = handed]_vars

\* A board is on its way up through at least two enclosing calls, one of
\* which still has candidate values it has not tried.
C15_Witness ==
    /\ ret.kind = "board"
    /\ Len(stack) >= 2
    /\ \E i \in 1..Len(stack) : stack[i].pc = "call" /\ stack[i].todo # {}

\* Number of variables of the board whose domain is not a singleton.
NonSingletons(board) == Cardinality({v \in DOMAIN board : Cardinality(board[v]) # 1})

\* C16: for every input board solve eventually returns; every recursive call
\* receives a board with strictly fewer non-singleton variables than its
\* caller's board, so the activations nested never outnumber the variables.
C16_SearchTerminates ==
    /\ <>SolveDone
    /\ [](\A i \in 2..Len(stack) :
            NonSingletons(stack[i].entry) < NonSingletons(stack[i - 1].entry))
    /\ [](Len(stack) <= NumCells)

\* solve has recursed three calls deep below the outermost one.
C16_Witness ==
    /\ Len(stack) >= 4
    /\ Top.pc = "enter"
    /\ NonSingletons(Top.entry) < NonSingletons(input)

\* C17: what solve returns does not depend on the order in which the values
\* of the chosen variable are tried: whatever the order, a board is returned
\* exactly when the input is complete or has a satisfying assignment, None
\* otherwise, and an input with exactly one satisfying assignment always gives
\* that assignment.
C17_OutcomeIgnoresValueOrder ==
    SolveDone =>
        /\ (ret.kind = "board") <=>
              (IsBoardComplete(input) \/ CompatibleSolutions(input) # {})
        /\ (ret.kind = "none") <=>
              ~(IsBoardComplete(input) \/ CompatibleSolutions(input) # {})
        /\ Cardinality(CompatibleSolutions(input)) = 1 =>
              (/\ ret.kind = "board"
               /\ \E s \in CompatibleSolutions(input) :
                     Solution = [v \in ModelCells |-> {s[v]}])

\* On an input with exactly one satisfying assignment the order taken tried
\* a value that was given up, and a value another order would have tried
\* first is still to come.
C17_Witness ==
    /\ Cardinality(CompatibleSolutions(input)) = 1
    /\ \E i \in 1..Len(stack) :
          /\ stack[i].pc = "loop"
          /\ stack[i].todo # {}
          /\ stack[i].todo # Candidates(stack[i].entry, stack[i].var)

\* C18: domains only shrink.  Every board alive during the search, the board
\* handed to ac3 included, has each variable's domain inside that variable's
\* domain in the input board; a returned board gives every variable one value
\* of its input domain, and a variable given as a single value keeps it.
C18_DomainsOnlyShrink ==
    /\ \A i \in 1..Len(heap) : \A v \in ModelCells : heap[i][v] \subseteq input[v]
    /\ handed # NoHanded => \A v \in ModelCells : handed.board[v] \subseteq input[v]
    /\ (SolveDone /\ ret.kind = "board") =>
          \A v \in ModelCells :
              /\ Cardinality(Solution[v]) = 1
              /\ Solution[v] \subseteq input[v]
              /\ Cardinality(input[v]) = 1 => Solution[v] = input[v]

\* A board was returned for an input that had given cells and a cell whose
\* domain was narrowed but not decided; the search branched and ac3 pruned.
C18_Witness ==
    /\ SolveDone /\ ret.kind = "board"
    /\ Solution # input
    /\ handed # NoHanded /\ handed.board # Solution
    /\ \E v \in ModelCells : Cardinality(input[v]) = 1
    /\ \E v \in ModelCells :
          /\ Cardinality(input[v]) > 1
          /\ input[v] # ModelDigits
          /\ Solution[v] # input[v]

(***************************************************************************)
(* ac3 under other orders                                                  *)
(***************************************************************************)

\* C19: AC-3 is confluent.  Whatever the order in which arcs are taken from
\* the worklist and whatever the order of the groups in the constraints list,
\* ac3 returns the boolean it returns when run as written, and when that is
\* True it leaves the same board.
C19_Ac3IsConfluent ==
    anySt.result \in {"true", "false"} =>
        \E r \in {Ac3(anyInput, ModelConstraints)} :
            /\ (anySt.result = "true") <=> r.ok
            /\ r.ok => anySt.board = r.board

\* ac3 returned True after removing values, with the groups passed in another
\* order and the arcs taken from the right end of the worklist.
C19_Witness ==
    /\ anySt.result = "true"
    /\ anySt.board # anyInput
    /\ anyGroups # ModelConstraints
    /\ anyPick.mode = "back"

====
